---- MODULE Spec2Model ----
(***************************************************************************)
(* Model of the reactive cell engine of react/src/lib.rs: the keyed Table, *)
(* the Reactor's two stores and its six public operations.  Every action   *)
(* but client_continue is one whole call of a public method, made by a     *)
(* client that holds no result.  The call leaves behind what it was (last: *)
(* method, arguments, result), the stores it found (pre), the compute      *)
(* functions it evaluated (evals), the callbacks it invoked (fired) and    *)
(* the RefCell guards it took and dropped (borrows); client_continue is    *)
(* the client dropping that record before its next call.  Definitions     *)
(* described as "A ... that ..." are faulty variants of the definition     *)
(* that follows them; the properties are tested on them.                   *)
(***************************************************************************)
EXTENDS Integers, Sequences, FiniteSets, TLC

\* ------------------------------------------------------------------ bounds

\* T, the value type of the cells, is 0 .. NumVals-1.
NumVals == 3
\* create_input is called at most MaxInputs times.
MaxInputs == 2
\* create_compute succeeds at most MaxComputes times.
MaxComputes == 2
\* At most MaxCells cells (input and compute together) are created.
MaxCells == 3
\* A dependency list passed to create_compute has at most MaxDeps entries.
MaxDeps == 2
\* add_callback succeeds at most MaxCallbacks times (over all cells).
MaxCallbacks == 2
\* frequency is given at most MaxLines lines, of at most MaxLineLen
\* characters each, and a worker_count of at most MaxWorkers.
MaxLines == 2
MaxLineLen == 2
MaxWorkers == 2
\* A CircularBuffer is made with a capacity of at most MaxCapacity and is
\* given the elements 0 .. NumElems-1; a call that would make it hold more
\* than MaxStored elements is not made.
MaxCapacity == 2
NumElems == 3
MaxStored == MaxCapacity + 1

VARIABLES
    inputs,     \* Reactor.inputs   : Table<InputCellId, InputCell<T>>
    computes,   \* Reactor.computes : Table<ComputeCellId, RefCell<ComputeCell>>
    last,       \* the client's position: idle, or holding the result of
                \* the call it has just made: [op, arg, ret]
    evals,      \* compute-function evaluations of the last call, in order
    fired,      \* callback invocations of the last call, in order
    borrows,    \* RefCell borrows taken and dropped by the last call, in order
    pre,        \* the stores as they were when the last call was made
    ncb,        \* number of callback closures the client has registered
    removed,    \* the callbacks for which remove_callback returned Ok, each
                \* as [cell, id, cb] (cb names the closure)
    \* parallel-letter-frequency: one call of frequency(input, worker_count)
    input,          \* the lines
    worker_count,
    pool,           \* the messages in flight on the work channel, each a
                    \* line with the place it has in input: [idx, line]
    pool_tx,        \* the Sender of the work channel is alive
    res,            \* the messages in flight on the result channel
    res_tx,         \* number of live Senders of the result channel
    res_rx,         \* the Receiver of the result channel is alive
    lock,           \* the worker holding the Mutex guard of pool_rx, or 0
    main,           \* where the calling thread is in frequency
    spawned,        \* threads spawned so far
    sent,           \* lines sent so far
    result,         \* the calling thread's HashMap
    worker,         \* where each worker thread is
    str,            \* each worker's received message
    counted,        \* the countings done, in order: [worker, idx]
    \* circular-buffer: one CircularBuffer and its client
    data,           \* CircularBuffer.data : VecDeque<T>, front first
    capacity,       \* CircularBuffer.capacity
    called          \* the last call: [op, arg, ret], and the data it found

react_vars == <<inputs, computes, last, evals, fired, borrows, pre, ncb, removed>>

freq_vars == <<input, worker_count, pool, pool_tx, res, res_tx, res_rx, lock,
               main, spawned, sent, result, worker, str, counted>>

buf_vars == <<data, capacity, called>>

vars == <<react_vars, freq_vars, buf_vars>>

\* The empty HashMap.
EmptyMap == [k \in {} |-> 0]

\* There is no CircularBuffer.
NoBuffer ==
    /\ data = <<>>
    /\ capacity = 0
    /\ called = [op |-> "none", arg |-> <<>>, ret |-> <<>>, data |-> <<>>]

\* No call of frequency is under way.
NoFrequency ==
    /\ input = <<>>
    /\ worker_count = 0
    /\ pool = <<>>
    /\ pool_tx = FALSE
    /\ res = <<>>
    /\ res_tx = 0
    /\ res_rx = FALSE
    /\ lock = 0
    /\ main = "none"
    /\ spawned = 0
    /\ sent = 0
    /\ result = EmptyMap
    /\ worker = <<>>
    /\ str = <<>>
    /\ counted = <<>>

\* ----------------------------------------------------------------- Option

None == <<>>
Some(v) == <<v>>
IsSome(o) == Len(o) = 1
Unwrap(o) == o[1]

\* ------------------------------------------------------------ identifiers

\* NextId::next for InputCellId, ComputeCellId and CallbackId.
NextId(i) == i + 1

\* CellId::Input(id) and CellId::Compute(id).
Input(i) == [kind |-> "Input", id |-> i]
Compute(i) == [kind |-> "Compute", id |-> i]

\* ------------------------------------------------------------------ Table

\* Table::new: an empty map and the default (zero) identifier.
TableNew == [data |-> <<>>, index |-> 0]

\* An insert that leaves the identifier counter where it was.
TableInsertNoAdvance(t, elem) ==
    [data  |-> [k \in (DOMAIN t.data) \cup {t.index} |->
                   IF k = t.index THEN elem ELSE t.data[k]],
     index |-> t.index]

\* Table::insert: the table after the insertion; the key returned is the
\* table's index before it.
TableInsert(t, elem) ==
    [data  |-> [k \in (DOMAIN t.data) \cup {t.index} |->
                   IF k = t.index THEN elem ELSE t.data[k]],
     index |-> NextId(t.index)]

\* Table::get and Table::get_mut.
TableGet(t, k) == IF k \in DOMAIN t.data THEN Some(t.data[k]) ELSE None

\* A remove that reports the entry but leaves it in the map.
TableRemoveKeeps(t, k) == t

\* A remove that gives the identifier back when it was the last one issued.
TableRemoveDecrements(t, k) ==
    [data  |-> [j \in (DOMAIN t.data) \ {k} |-> t.data[j]],
     index |-> IF k \in DOMAIN t.data /\ k + 1 = t.index THEN k ELSE t.index]

\* Table::remove: the table after the removal (the index is left alone).
TableRemove(t, k) ==
    [data  |-> [j \in (DOMAIN t.data) \ {k} |-> t.data[j]],
     index |-> t.index]

\* The keys of a map whose iterators visit the greatest key first.
RECURSIVE SortedKeysDescending(_)
SortedKeysDescending(S) ==
    IF S = {} THEN <<>>
    ELSE LET m == CHOOSE x \in S : \A y \in S : x >= y
         IN  <<m>> \o SortedKeysDescending(S \ {m})

\* The keys of a BTreeMap in the order its iterators visit them: ascending.
RECURSIVE SortedKeys(_)
SortedKeys(S) ==
    IF S = {} THEN <<>>
    ELSE LET m == CHOOSE x \in S : \A y \in S : x <= y
         IN  <<m>> \o SortedKeys(S \ {m})

\* An iteration that visits the newest key first.
TableIterDescending(t) == SortedKeysDescending(DOMAIN t.data)

\* Table::iter and Table::iter_mut: the keys in visiting order.
TableIter(t) == SortedKeys(DOMAIN t.data)

\* ------------------------------------------------- the client's functions

Values == 0 .. (NumVals - 1)

\* The compute functions the client passes to create_compute: total functions
\* from a slice of values to a value.
\*   "weighted": sum of i * v[i], modulo NumVals (sensitive to argument order)
\*   "nonzero" : 1 when some argument is not 0, else 0 (hides most changes)
Funcs == {"weighted", "nonzero"}

RECURSIVE WeightedSum(_, _)
WeightedSum(vs, n) ==
    IF n = 0 THEN 0 ELSE WeightedSum(vs, n - 1) + n * vs[n]

Apply(f, vs) ==
    IF f = "weighted" THEN WeightedSum(vs, Len(vs)) % NumVals
    ELSE IF \E i \in 1 .. Len(vs) : vs[i] # 0 THEN 1 ELSE 0

\* --------------------------------------------------------------- Reactor

\* A lookup that, for an identifier unknown to its own store, falls back to
\* the store of the other kind.
ValueInFallback(ins, comps, ref) ==
    IF IsSome(TableGet(ins, ref.id)) /\ (ref.kind = "Input" \/ ~IsSome(TableGet(comps, ref.id)))
    THEN Some(Unwrap(TableGet(ins, ref.id)).value)
    ELSE IF IsSome(TableGet(comps, ref.id))
         THEN Some(Unwrap(TableGet(comps, ref.id)).value) ELSE None

\* Reactor::value on a given pair of stores.
ValueIn(ins, comps, ref) ==
    IF ref.kind = "Input"
    THEN IF IsSome(TableGet(ins, ref.id))
         THEN Some(Unwrap(TableGet(ins, ref.id)).value) ELSE None
    ELSE IF IsSome(TableGet(comps, ref.id))
         THEN Some(Unwrap(TableGet(comps, ref.id)).value) ELSE None

\* Reactor::value on the current state.
value(ref) == ValueIn(inputs, computes, ref)

\* filter_map(|&c| self.value(c)).collect(): the values of the dependencies
\* that resolve, in order; the others are dropped.
RECURSIVE FilterMapValues(_, _, _)
FilterMapValues(ins, comps, deps) ==
    IF deps = <<>> THEN <<>>
    ELSE LET o == ValueIn(ins, comps, Head(deps))
         IN  (IF IsSome(o) THEN <<Unwrap(o)>> ELSE <<>>)
                 \o FilterMapValues(ins, comps, Tail(deps))

\* A resolution that, on failure, reports the first dependency of the list
\* whether it exists or not.
DepValuesFirstDep(deps) ==
    IF \A i \in 1 .. Len(deps) : IsSome(value(deps[i]))
    THEN [ok |-> TRUE, vals |-> [i \in 1 .. Len(deps) |-> Unwrap(value(deps[i]))]]
    ELSE [ok |-> FALSE, err |-> deps[1]]

\* A resolution that, like the one of react, drops the dependencies that do
\* not resolve instead of failing.
DepValuesFilterMap(deps) ==
    [ok |-> TRUE, vals |-> FilterMapValues(inputs, computes, deps)]

\* dependencies.iter().map(|&cell| self.value(cell).ok_or(cell)).collect():
\* Ok(values) when every dependency resolves, else Err(first that does not).
DepValues(deps) ==
    IF \A i \in 1 .. Len(deps) : IsSome(value(deps[i]))
    THEN [ok |-> TRUE, vals |-> [i \in 1 .. Len(deps) |-> Unwrap(value(deps[i]))]]
    ELSE [ok |-> FALSE,
          err |-> deps[CHOOSE i \in 1 .. Len(deps) :
                          /\ ~IsSome(value(deps[i]))
                          /\ \A j \in 1 .. (i - 1) : IsSome(value(deps[j]))]]

\* The RefCell of compute cell c is borrowed (cell.borrow()), mutably
\* borrowed (cell.borrow_mut()), and the guard of either kind is dropped.
Borrow(c) == [ev |-> "borrow", cell |-> c]
Drop(c) == [ev |-> "drop", cell |-> c]
BorrowMut(c) == [ev |-> "borrow_mut", cell |-> c]
DropMut(c) == [ev |-> "drop_mut", cell |-> c]

\* The borrows of one call of Reactor::value: cell.borrow().value on an
\* existing compute cell, the guard dropped at the end of the expression.
ValueBorrows(comps, ref) ==
    IF ref.kind = "Compute" /\ IsSome(TableGet(comps, ref.id))
    THEN <<Borrow(ref.id), Drop(ref.id)>> ELSE <<>>

\* The borrows of the calls of value that create_compute makes: one call for
\* each dependency up to the first that does not resolve, where collect()
\* stops.
RECURSIVE DepBorrowsIn(_, _, _)
DepBorrowsIn(ins, comps, deps) ==
    IF deps = <<>> THEN <<>>
    ELSE ValueBorrows(comps, Head(deps))
            \o (IF IsSome(ValueIn(ins, comps, Head(deps)))
                THEN DepBorrowsIn(ins, comps, Tail(deps)) ELSE <<>>)

DepBorrows(deps) == DepBorrowsIn(inputs, computes, deps)

\* The borrows of the calls of value that react makes for the dependencies
\* of one cell: filter_map calls it for every one of them.
RECURSIVE FilterMapBorrows(_, _)
FilterMapBorrows(comps, deps) ==
    IF deps = <<>> THEN <<>>
    ELSE ValueBorrows(comps, Head(deps)) \o FilterMapBorrows(comps, Tail(deps))

\* A loop body that keeps the guard of borrow_mut (say, in a list of the
\* cells it has updated) instead of dropping it at the end of the iteration.
ReactCellBorrowsKept(comps, c) ==
    <<Borrow(c)>> \o FilterMapBorrows(comps, comps.data[c].dependencies)
        \o <<Drop(c), BorrowMut(c)>>

\* The borrows of one iteration of the loop of react: cell.borrow() lives
\* while the dependencies are read, cell.borrow_mut() from then to the end
\* of the iteration, over the call of the function and of the callbacks.
ReactCellBorrows(comps, c) ==
    <<Borrow(c)>> \o FilterMapBorrows(comps, comps.data[c].dependencies)
        \o <<Drop(c), BorrowMut(c), DropMut(c)>>

\* A loop over the callbacks that starts with the one registered last.
CallCallbacksNewestFirst(c, cell, v) ==
    LET ks == TableIterDescending(cell.callbacks)
    IN  [i \in 1 .. Len(ks) |->
            [cell |-> c, id |-> ks[i], cb |-> cell.callbacks.data[ks[i]],
             value |-> v, cached |-> cell.value]]

\* for cb in cell.callbacks.iter_mut() { cb(value) }: the invocations made,
\* in order, each recorded with the cell, the callback's id, the closure
\* called, the value passed and the value the cell holds at that moment.
CallCallbacks(c, cell, v) ==
    LET ks == TableIter(cell.callbacks)
    IN  [i \in 1 .. Len(ks) |->
            [cell |-> c, id |-> ks[i], cb |-> cell.callbacks.data[ks[i]],
             value |-> v, cached |-> cell.value]]

\* A loop body without the comparison: the callbacks are called whether the
\* value changed or not.
ReactCellAlwaysFires(ins, st, c) ==
    LET cell       == st.computes.data[c]
        dep_values == FilterMapValues(ins, st.computes, cell.dependencies)
        v          == Apply(cell.func, dep_values)
        ev         == [cell |-> c, args |-> dep_values, old |-> Some(cell.value),
                       result |-> v]
        updated    == [cell EXCEPT !.value = v]
    IN  [computes |-> [st.computes EXCEPT !.data[c] = updated],
         evals    |-> Append(st.evals, ev),
         fired    |-> st.fired \o CallCallbacks(c, updated, v),
         borrows  |-> st.borrows \o ReactCellBorrows(st.computes, c)]

\* A loop body that calls the callbacks, with the value the cell had, before
\* it stores the new one.
ReactCellPassesOld(ins, st, c) ==
    LET cell       == st.computes.data[c]
        dep_values == FilterMapValues(ins, st.computes, cell.dependencies)
        v          == Apply(cell.func, dep_values)
        ev         == [cell |-> c, args |-> dep_values, old |-> Some(cell.value),
                       result |-> v]
        updated    == [cell EXCEPT !.value = v]
    IN  IF v # cell.value
        THEN [computes |-> [st.computes EXCEPT !.data[c] = updated],
              evals    |-> Append(st.evals, ev),
              fired    |-> st.fired \o CallCallbacks(c, cell, cell.value),
              borrows  |-> st.borrows \o ReactCellBorrows(st.computes, c)]
        ELSE [computes |-> st.computes,
              evals    |-> Append(st.evals, ev),
              fired    |-> st.fired,
              borrows  |-> st.borrows \o ReactCellBorrows(st.computes, c)]

\* A loop body that empties the cell's callback table once it has called
\* the callbacks.
ReactCellOneShot(ins, st, c) ==
    LET cell       == st.computes.data[c]
        dep_values == FilterMapValues(ins, st.computes, cell.dependencies)
        v          == Apply(cell.func, dep_values)
        ev         == [cell |-> c, args |-> dep_values, old |-> Some(cell.value),
                       result |-> v]
        updated    == [cell EXCEPT !.value = v]
    IN  IF v # cell.value
        THEN [computes |-> [st.computes EXCEPT !.data[c] =
                               [updated EXCEPT !.callbacks.data = <<>>]],
              evals    |-> Append(st.evals, ev),
              fired    |-> st.fired \o CallCallbacks(c, updated, v),
              borrows  |-> st.borrows \o ReactCellBorrows(st.computes, c)]
        ELSE [computes |-> st.computes,
              evals    |-> Append(st.evals, ev),
              fired    |-> st.fired,
              borrows  |-> st.borrows \o ReactCellBorrows(st.computes, c)]

\* The body of the loop of Reactor::react for the compute cell c, on the
\* state st = [computes, evals, fired, borrows] the pass has produced so
\* far: the dependencies are read, the function is called, and if its result
\* is not the cached value it is stored and then the callbacks are called.
ReactCell(ins, st, c) ==
    LET cell       == st.computes.data[c]
        dep_values == FilterMapValues(ins, st.computes, cell.dependencies)
        v          == Apply(cell.func, dep_values)
        ev         == [cell |-> c, args |-> dep_values, old |-> Some(cell.value),
                       result |-> v]
        updated    == [cell EXCEPT !.value = v]
    IN  IF v # cell.value
        THEN [computes |-> [st.computes EXCEPT !.data[c] = updated],
              evals    |-> Append(st.evals, ev),
              fired    |-> st.fired \o CallCallbacks(c, updated, v),
              borrows  |-> st.borrows \o ReactCellBorrows(st.computes, c)]
        ELSE [computes |-> st.computes,
              evals    |-> Append(st.evals, ev),
              fired    |-> st.fired,
              borrows  |-> st.borrows \o ReactCellBorrows(st.computes, c)]

\* Reactor::react: one pass over the compute cells in the table's order.
RECURSIVE ReactLoop(_, _, _)
ReactLoop(ins, st, ks) ==
    IF ks = <<>> THEN st
    ELSE ReactLoop(ins, ReactCell(ins, st, Head(ks)), Tail(ks))

\* A react that makes a second pass over the cells after the first.
ReactTwice(ins, comps) ==
    ReactLoop(ins,
              ReactLoop(ins, [computes |-> comps, evals |-> <<>>, fired |-> <<>>,
                              borrows |-> <<>>],
                        TableIter(comps)),
              TableIter(comps))

\* Reactor::react, from the stores set_value has written the input into: the
\* stores after the pass, and what the pass evaluated, called and borrowed.
React(ins, comps) ==
    ReactLoop(ins, [computes |-> comps, evals |-> <<>>, fired |-> <<>>,
                    borrows |-> <<>>],
              TableIter(comps))

\* ---------------------------------------------------------------- inputs

\* The identifiers and references a client may pass: those issued so far
\* and, of each kind, the first one not issued yet.
InputIds == 0 .. inputs.index
ComputeIds == 0 .. computes.index
CallbackIds == 0 .. MaxCallbacks
Refs == {Input(i) : i \in InputIds} \cup {Compute(i) : i \in ComputeIds}

RECURSIVE SeqsUpTo(_, _)
SeqsUpTo(S, n) ==
    IF n = 0 THEN {<<>>}
    ELSE LET shorter == SeqsUpTo(S, n - 1)
         IN  shorter \cup {Append(s, x) : s \in {t \in shorter : Len(t) = n - 1}, x \in S}

DepLists == SeqsUpTo(Refs, MaxDeps)

\* ---------------------------------------------------------------- actions

Idle == [op |-> "idle", arg |-> <<>>, ret |-> <<>>]

\* Reactor::new
ReactorNew ==
    /\ inputs = TableNew
    /\ computes = TableNew
    /\ last = Idle
    /\ pre = [inputs |-> TableNew, computes |-> TableNew]
    /\ evals = <<>>
    /\ fired = <<>>
    /\ borrows = <<>>
    /\ ncb = 0
    /\ removed = {}

\* A client with a new reactor.
Init == ReactorNew /\ NoFrequency /\ NoBuffer

\* Reactor::create_input(initial)
create_input(initial) ==
    /\ inputs.index < MaxInputs
    /\ inputs.index + computes.index < MaxCells
    /\ inputs' = TableInsert(inputs, [value |-> initial])
    /\ last' = [op |-> "create_input", arg |-> <<initial>>, ret |-> inputs.index]
    /\ evals' = <<>>
    /\ fired' = <<>>
    /\ borrows' = <<>>
    /\ UNCHANGED <<computes, ncb, removed>>

\* A create_compute that stores the cell, with the default value, before it
\* resolves the dependencies, so that a reference to the new cell resolves.
create_compute_inserts_first(dependencies, compute_func) ==
    LET blank == [value |-> 0, dependencies |-> dependencies,
                  func |-> compute_func, callbacks |-> TableNew]
        stored == TableInsert(computes, blank)
        ok == \A i \in 1 .. Len(dependencies) :
                  IsSome(ValueIn(inputs, stored, dependencies[i]))
    IN  IF ~ok
        THEN /\ last' = [op |-> "create_compute",
                         arg |-> <<dependencies, compute_func>>,
                         ret |-> [ok |-> FALSE, err |-> DepValues(dependencies).err]]
             /\ evals' = <<>>
             /\ fired' = <<>>
             /\ borrows' = DepBorrows(dependencies)
             /\ UNCHANGED <<inputs, computes, ncb, removed>>
        ELSE LET vals == [i \in 1 .. Len(dependencies) |->
                            Unwrap(ValueIn(inputs, stored, dependencies[i]))]
                 v    == Apply(compute_func, vals)
             IN  /\ computes.index < MaxComputes
                 /\ inputs.index + computes.index < MaxCells
                 /\ computes' = [stored EXCEPT !.data[computes.index].value = v]
                 /\ last' = [op |-> "create_compute",
                             arg |-> <<dependencies, compute_func>>,
                             ret |-> [ok |-> TRUE, id |-> computes.index]]
                 /\ evals' = <<[cell |-> computes.index, args |-> vals,
                                old |-> None, result |-> v]>>
                 /\ fired' = <<>>
                 /\ borrows' = DepBorrows(dependencies)
                 /\ UNCHANGED <<inputs, ncb, removed>>

\* A create_compute that leaves the evaluation of the function to the first
\* propagation pass and stores the default value.
create_compute_lazy(dependencies, compute_func) ==
    LET dep_values == DepValues(dependencies)
    IN  IF ~dep_values.ok
        THEN /\ last' = [op |-> "create_compute",
                         arg |-> <<dependencies, compute_func>>,
                         ret |-> [ok |-> FALSE, err |-> dep_values.err]]
             /\ evals' = <<>>
             /\ fired' = <<>>
             /\ borrows' = DepBorrows(dependencies)
             /\ UNCHANGED <<inputs, computes, ncb, removed>>
        ELSE LET cell == [value |-> 0, dependencies |-> dependencies,
                          func |-> compute_func, callbacks |-> TableNew]
             IN  /\ computes.index < MaxComputes
                 /\ inputs.index + computes.index < MaxCells
                 /\ computes' = TableInsert(computes, cell)
                 /\ last' = [op |-> "create_compute",
                             arg |-> <<dependencies, compute_func>>,
                             ret |-> [ok |-> TRUE, id |-> computes.index]]
                 /\ evals' = <<>>
                 /\ fired' = <<>>
                 /\ borrows' = DepBorrows(dependencies)
                 /\ UNCHANGED <<inputs, ncb, removed>>

\* Reactor::create_compute(dependencies, compute_func)
create_compute(dependencies, compute_func) ==
    LET dep_values == DepValues(dependencies)
    IN  IF ~dep_values.ok
        THEN /\ last' = [op |-> "create_compute",
                         arg |-> <<dependencies, compute_func>>,
                         ret |-> [ok |-> FALSE, err |-> dep_values.err]]
             /\ evals' = <<>>
             /\ fired' = <<>>
             /\ borrows' = DepBorrows(dependencies)
             /\ UNCHANGED <<inputs, computes, ncb, removed>>
        ELSE LET v    == Apply(compute_func, dep_values.vals)
                 cell == [value |-> v, dependencies |-> dependencies,
                          func |-> compute_func, callbacks |-> TableNew]
             IN  /\ computes.index < MaxComputes
                 /\ inputs.index + computes.index < MaxCells
                 /\ computes' = TableInsert(computes, cell)
                 /\ last' = [op |-> "create_compute",
                             arg |-> <<dependencies, compute_func>>,
                             ret |-> [ok |-> TRUE, id |-> computes.index]]
                 /\ evals' = <<[cell |-> computes.index, args |-> dep_values.vals,
                                old |-> None, result |-> v]>>
                 /\ fired' = <<>>
                 /\ borrows' = DepBorrows(dependencies)
                 /\ UNCHANGED <<inputs, ncb, removed>>

\* Reactor::value(id), called by the client
value_op(id) ==
    /\ last' = [op |-> "value", arg |-> <<id>>, ret |-> value(id)]
    /\ evals' = <<>>
    /\ fired' = <<>>
    /\ borrows' = ValueBorrows(computes, id)
    /\ UNCHANGED <<inputs, computes, ncb, removed>>

\* A set_value that runs the propagation pass before looking the input up.
set_value_reacts_first(id, new_value) ==
    IF IsSome(TableGet(inputs, id))
    THEN LET ins == [inputs EXCEPT !.data[id].value = new_value]
             r   == React(ins, computes)
         IN  /\ inputs' = ins
             /\ computes' = r.computes
             /\ evals' = r.evals
             /\ fired' = r.fired
             /\ borrows' = r.borrows
             /\ last' = [op |-> "set_value", arg |-> <<id, new_value>>, ret |-> TRUE]
             /\ UNCHANGED <<ncb, removed>>
    ELSE LET r == React(inputs, computes)
         IN  /\ last' = [op |-> "set_value", arg |-> <<id, new_value>>, ret |-> FALSE]
             /\ computes' = r.computes
             /\ evals' = r.evals
             /\ fired' = r.fired
             /\ borrows' = r.borrows
             /\ UNCHANGED <<inputs, ncb, removed>>

\* A set_value that writes the new value into every input cell.
set_value_all_inputs(id, new_value) ==
    IF IsSome(TableGet(inputs, id))
    THEN LET ins == [inputs EXCEPT !.data =
                        [k \in DOMAIN inputs.data |-> [value |-> new_value]]]
             r   == React(ins, computes)
         IN  /\ inputs' = ins
             /\ computes' = r.computes
             /\ evals' = r.evals
             /\ fired' = r.fired
             /\ borrows' = r.borrows
             /\ last' = [op |-> "set_value", arg |-> <<id, new_value>>, ret |-> TRUE]
             /\ UNCHANGED <<ncb, removed>>
    ELSE /\ last' = [op |-> "set_value", arg |-> <<id, new_value>>, ret |-> FALSE]
         /\ evals' = <<>>
         /\ fired' = <<>>
         /\ borrows' = <<>>
         /\ UNCHANGED <<inputs, computes, ncb, removed>>

\* Reactor::set_value(id, new_value)
set_value(id, new_value) ==
    IF IsSome(TableGet(inputs, id))
    THEN LET ins == [inputs EXCEPT !.data[id].value = new_value]
             r   == React(ins, computes)
         IN  /\ inputs' = ins
             /\ computes' = r.computes
             /\ evals' = r.evals
             /\ fired' = r.fired
             /\ borrows' = r.borrows
             /\ last' = [op |-> "set_value", arg |-> <<id, new_value>>, ret |-> TRUE]
             /\ UNCHANGED <<ncb, removed>>
    ELSE /\ last' = [op |-> "set_value", arg |-> <<id, new_value>>, ret |-> FALSE]
         /\ evals' = <<>>
         /\ fired' = <<>>
         /\ borrows' = <<>>
         /\ UNCHANGED <<inputs, computes, ncb, removed>>

\* Reactor::add_callback(id, callback); the client passes a closure it has
\* not registered before, named by the number of closures registered so far.
add_callback(id) ==
    IF IsSome(TableGet(computes, id))
    THEN /\ ncb < MaxCallbacks
         /\ computes' = [computes EXCEPT !.data[id].callbacks =
                            TableInsert(computes.data[id].callbacks, ncb)]
         /\ last' = [op |-> "add_callback", arg |-> <<id, ncb>>,
                     ret |-> Some(computes.data[id].callbacks.index)]
         /\ ncb' = ncb + 1
         /\ evals' = <<>>
         /\ fired' = <<>>
         /\ borrows' = <<BorrowMut(id), DropMut(id)>>
         /\ UNCHANGED <<inputs, removed>>
    ELSE /\ last' = [op |-> "add_callback", arg |-> <<id, ncb>>, ret |-> None]
         /\ evals' = <<>>
         /\ fired' = <<>>
         /\ borrows' = <<>>
         /\ UNCHANGED <<inputs, computes, ncb, removed>>

\* A remove_callback that takes callback identifiers to be global: it
\* removes the identifier from every cell that has it.
remove_callback_all_cells(cell, callback) ==
    IF IsSome(TableGet(computes, cell))
    THEN LET cbs == computes.data[cell].callbacks
         IN  IF IsSome(TableGet(cbs, callback))
             THEN /\ computes' = [computes EXCEPT !.data =
                                     [d \in DOMAIN computes.data |->
                                        [computes.data[d] EXCEPT !.callbacks =
                                            TableRemove(computes.data[d].callbacks, callback)]]]
                  /\ removed' = removed \cup
                         {[cell |-> cell, id |-> callback, cb |-> cbs.data[callback]]}
                  /\ last' = [op |-> "remove_callback", arg |-> <<cell, callback>>,
                              ret |-> "Ok"]
                  /\ evals' = <<>>
                  /\ fired' = <<>>
                  /\ borrows' = <<BorrowMut(cell), DropMut(cell)>>
                  /\ UNCHANGED <<inputs, ncb>>
             ELSE /\ last' = [op |-> "remove_callback", arg |-> <<cell, callback>>,
                              ret |-> "NonexistentCallback"]
                  /\ evals' = <<>>
                  /\ fired' = <<>>
                  /\ borrows' = <<BorrowMut(cell), DropMut(cell)>>
                  /\ UNCHANGED <<inputs, computes, ncb, removed>>
    ELSE /\ last' = [op |-> "remove_callback", arg |-> <<cell, callback>>,
                     ret |-> "NonexistentCell"]
         /\ evals' = <<>>
         /\ fired' = <<>>
         /\ borrows' = <<>>
         /\ UNCHANGED <<inputs, computes, ncb, removed>>

\* A remove_callback that ignores what Table::remove returned.
remove_callback_ignores_result(cell, callback) ==
    IF IsSome(TableGet(computes, cell))
    THEN LET cbs == computes.data[cell].callbacks
         IN  /\ computes' = [computes EXCEPT !.data[cell].callbacks =
                                TableRemove(cbs, callback)]
             /\ removed' = removed \cup
                    {[cell |-> cell, id |-> callback, cb |-> cbs.data[k]] :
                        k \in {callback} \cap DOMAIN cbs.data}
             /\ last' = [op |-> "remove_callback", arg |-> <<cell, callback>>,
                         ret |-> "Ok"]
             /\ evals' = <<>>
             /\ fired' = <<>>
             /\ borrows' = <<BorrowMut(cell), DropMut(cell)>>
             /\ UNCHANGED <<inputs, ncb>>
    ELSE /\ last' = [op |-> "remove_callback", arg |-> <<cell, callback>>,
                     ret |-> "NonexistentCell"]
         /\ evals' = <<>>
         /\ fired' = <<>>
         /\ borrows' = <<>>
         /\ UNCHANGED <<inputs, computes, ncb, removed>>

\* Reactor::remove_callback(cell, callback)
remove_callback(cell, callback) ==
    IF IsSome(TableGet(computes, cell))
    THEN LET cbs == computes.data[cell].callbacks
         IN  IF IsSome(TableGet(cbs, callback))
             THEN /\ computes' = [computes EXCEPT !.data[cell].callbacks =
                                     TableRemove(cbs, callback)]
                  /\ removed' = removed \cup
                         {[cell |-> cell, id |-> callback, cb |-> cbs.data[callback]]}
                  /\ last' = [op |-> "remove_callback", arg |-> <<cell, callback>>,
                              ret |-> "Ok"]
                  /\ evals' = <<>>
                  /\ fired' = <<>>
                  /\ borrows' = <<BorrowMut(cell), DropMut(cell)>>
                  /\ UNCHANGED <<inputs, ncb>>
             ELSE /\ last' = [op |-> "remove_callback", arg |-> <<cell, callback>>,
                              ret |-> "NonexistentCallback"]
                  /\ evals' = <<>>
                  /\ fired' = <<>>
                  /\ borrows' = <<BorrowMut(cell), DropMut(cell)>>
                  /\ UNCHANGED <<inputs, computes, ncb, removed>>
    ELSE /\ last' = [op |-> "remove_callback", arg |-> <<cell, callback>>,
                     ret |-> "NonexistentCell"]
         /\ evals' = <<>>
         /\ fired' = <<>>
         /\ borrows' = <<>>
         /\ UNCHANGED <<inputs, computes, ncb, removed>>

\* The client has looked at the result of its call and goes on to the next
\* one; the reactor is untouched.
client_continue ==
    /\ last # Idle
    /\ last' = Idle
    /\ pre' = [inputs |-> inputs, computes |-> computes]
    /\ evals' = <<>>
    /\ fired' = <<>>
    /\ borrows' = <<>>
    /\ UNCHANGED <<inputs, computes, ncb, removed>>
    /\ UNCHANGED <<freq_vars, buf_vars>>

\* A call is made by a client that holds no result; it records the stores
\* it finds.
Calling ==
    /\ last = Idle
    /\ pre' = [inputs |-> inputs, computes |-> computes]
    /\ UNCHANGED <<freq_vars, buf_vars>>

CreateInput == Calling /\ \E v \in Values : create_input(v)

CreateCompute == Calling /\ \E deps \in DepLists, f \in Funcs : create_compute(deps, f)

Value == Calling /\ \E ref \in Refs : value_op(ref)

SetValue == Calling /\ \E id \in InputIds, v \in Values : set_value(id, v)

AddCallback == Calling /\ \E id \in ComputeIds : add_callback(id)

RemoveCallback ==
    Calling /\ \E cell \in ComputeIds, cb \in CallbackIds : remove_callback(cell, cb)

Next ==
    \/ CreateInput
    \/ CreateCompute
    \/ Value
    \/ SetValue
    \/ AddCallback
    \/ RemoveCallback
    \/ client_continue

Spec == Init /\ [][Next]_vars

\* ------------------------------------------------------------ properties

Range(s) == {s[i] : i \in DOMAIN s}

\* The callback ids registered on the compute cell c.
Registered(c) == DOMAIN computes.data[c].callbacks.data

\* The current values of the dependencies of a compute cell, in order.
CurrentArgs(cell) ==
    [i \in 1 .. Len(cell.dependencies) |-> Unwrap(value(cell.dependencies[i]))]

\* The cached value of c is its function applied to the current values of
\* its dependencies.
CoherentCell(c) ==
    LET cell == computes.data[c]
    IN  /\ \A i \in 1 .. Len(cell.dependencies) : IsSome(value(cell.dependencies[i]))
        /\ cell.value = Apply(cell.func, CurrentArgs(cell))

Coherent == \A c \in DOMAIN computes.data : CoherentCell(c)

\* The j-th evaluation of the last call was a recomputation that changed
\* the cell's cached value.
ChangedAt(j) == evals[j].old # None /\ evals[j].old # Some(evals[j].result)

\* The last call recomputed c to a different value.
Changed(c) == \E j \in DOMAIN evals : evals[j].cell = c /\ ChangedAt(j)

SetValueOk == last.op = "set_value" /\ last.ret = TRUE

\* Reactor::value as it would have answered when the last call was made.
PreValue(ref) == ValueIn(pre.inputs, pre.computes, ref)

\* The last call left both stores as it found them.
StoresUnchanged == inputs = pre.inputs /\ computes = pre.computes

\* C1: when a successful set_value has returned, every compute cell's cached
\* value equals its function applied to the current values of its
\* dependencies in dependency order, also for cells that reach the mutated
\* input only through other compute cells.
C1_CacheCoherence == SetValueOk => Coherent

\* A set_value changed a compute cell c1 that depends on the mutated input
\* only through another compute cell c0, which changed too.
C1_Witness ==
    /\ SetValueOk
    /\ \E c0, c1 \in DOMAIN computes.data :
          /\ Input(last.arg[1]) \in Range(computes.data[c0].dependencies)
          /\ Compute(c0) \in Range(computes.data[c1].dependencies)
          /\ Input(last.arg[1]) \notin Range(computes.data[c1].dependencies)
          /\ Changed(c0) /\ Changed(c1)

\* C2: in every set_value call, each callback registered on a compute cell
\* when the call is made is invoked exactly once if the cell's value after
\* the call differs from its value before, and not at all if it is the same.
C2_CallbackOncePerChange ==
    last.op = "set_value" =>
        \A c \in DOMAIN pre.computes.data :
            \A k \in DOMAIN pre.computes.data[c].callbacks.data :
                Cardinality({i \in DOMAIN fired :
                                /\ fired[i].cell = c
                                /\ fired[i].id = k
                                /\ fired[i].cb = pre.computes.data[c].callbacks.data[k]})
                    = IF value(Compute(c)) # PreValue(Compute(c)) THEN 1 ELSE 0

\* One set_value changed the input i and the cell c0 = i, whose callback was
\* called once, and left c1, which reads both i and c0, at its value, so
\* that c1's callback was not called.
C2_Witness ==
    /\ SetValueOk
    /\ \E c0, c1 \in DOMAIN computes.data :
          /\ computes.data[c0].dependencies = <<Input(last.arg[1])>>
          /\ computes.data[c0].func = "weighted"
          /\ computes.data[c1].dependencies = <<Input(last.arg[1]), Compute(c0)>>
          /\ Registered(c0) # {} /\ Registered(c1) # {}
          /\ Changed(c0) /\ ~Changed(c1)
          /\ Cardinality({i \in DOMAIN fired : fired[i].cell = c0}) = 1
          /\ \A i \in DOMAIN fired : fired[i].cell # c1

\* C3: a callback invoked during a set_value call is passed the value that
\* value(Compute(cell)) returns once the call has returned.
C3_CallbackGetsFinalValue ==
    last.op = "set_value" =>
        \A i \in DOMAIN fired : value(Compute(fired[i].cell)) = Some(fired[i].value)

\* A callback was called on a cell that depends on another compute cell,
\* both recomputed to new values in the same call.
C3_Witness ==
    /\ SetValueOk
    /\ \E i \in DOMAIN fired : \E c0 \in DOMAIN computes.data :
          /\ Compute(c0) \in Range(computes.data[fired[i].cell].dependencies)
          /\ Changed(c0)
          /\ fired[i].value # computes.data[c0].value

\* C4: a callback for which remove_callback returned Ok is invoked by no
\* later call, and every callback still registered on a cell is invoked
\* when a set_value changes that cell.
C4_RemovedNeverFires ==
    /\ \A i \in DOMAIN fired : \A r \in removed : fired[i].cb # r.cb
    /\ \A j \in DOMAIN evals :
          ChangedAt(j) =>
              \A k \in Registered(evals[j].cell) :
                  \E i \in DOMAIN fired :
                      /\ fired[i].cell = evals[j].cell
                      /\ fired[i].id = k
                      /\ fired[i].cb = computes.data[evals[j].cell].callbacks.data[k]

\* A set_value changed a cell from which one callback had been removed, and
\* called the callback that was still registered on it.
C4_Witness ==
    /\ SetValueOk
    /\ \E r \in removed :
          /\ Changed(r.cell)
          /\ \E i \in DOMAIN fired : fired[i].cell = r.cell

\* C5: remove_callback returns NonexistentCell for an unknown compute cell,
\* NonexistentCallback for a callback not registered on an existing cell,
\* both without changing the reactor, and Ok only for a registered callback,
\* which is then no longer registered; a removed identifier is never
\* registered again, so removing it a second time fails.
C5_RemoveCallbackResult ==
    /\ last.op = "remove_callback" =>
          LET cell == last.arg[1]
              cb   == last.arg[2]
          IN  IF cell \notin DOMAIN pre.computes.data
              THEN last.ret = "NonexistentCell" /\ StoresUnchanged
              ELSE IF cb \notin DOMAIN pre.computes.data[cell].callbacks.data
              THEN last.ret = "NonexistentCallback" /\ StoresUnchanged
              ELSE last.ret = "Ok" /\ cb \notin Registered(cell)
    /\ \A r \in removed : r.id \notin Registered(r.cell)

\* The second removal of a callback identifier has returned
\* NonexistentCallback.
C5_Witness ==
    /\ last.op = "remove_callback"
    /\ last.ret = "NonexistentCallback"
    /\ \E r \in removed : r.cell = last.arg[1] /\ r.id = last.arg[2]

\* C6: create_compute with a dependency that does not resolve returns Err
\* with a reference of the list that does not exist, evaluates nothing and
\* leaves both stores (cells, values and identifier counters) as they were.
C6_CreateComputeError ==
    (/\ last.op = "create_compute"
     /\ \E i \in DOMAIN last.arg[1] : ~IsSome(PreValue(last.arg[1][i])))
        => /\ ~last.ret.ok
           /\ last.ret.err \in Range(last.arg[1])
           /\ ~IsSome(PreValue(last.ret.err))
           /\ evals = <<>>
           /\ StoresUnchanged

\* create_compute failed on a two-element list whose first dependency
\* exists, reporting the second.
C6_Witness ==
    /\ last.op = "create_compute"
    /\ ~last.ret.ok
    /\ Len(last.arg[1]) = 2
    /\ IsSome(value(last.arg[1][1]))
    /\ last.ret.err = last.arg[1][2]
    /\ computes.index > 0

\* C7: set_value on an unknown input identifier returns false, evaluates no
\* compute function, invokes no callback and changes no value.
C7_SetValueUnknown ==
    (/\ last.op = "set_value"
     /\ last.arg[1] \notin DOMAIN pre.inputs.data)
        => /\ last.ret = FALSE
           /\ evals = <<>>
           /\ fired = <<>>
           /\ StoresUnchanged

\* set_value on an unknown identifier returned false in a reactor that has
\* an input, and a compute cell with a callback.
C7_Witness ==
    /\ last.op = "set_value"
    /\ last.ret = FALSE
    /\ inputs.index > 0
    /\ \E c \in DOMAIN computes.data : Registered(c) # {}

\* C8: value(Input(id)) is v right after create_input(v) returned id, v2
\* right after set_value(id, v2) returned true, and is changed by no other
\* call: it is the value of the latest create_input or successful set_value
\* for id.
C8_InputValue ==
    \A id \in DOMAIN inputs.data :
        value(Input(id)) =
            IF last.op = "create_input" /\ last.ret = id
            THEN Some(last.arg[1])
            ELSE IF SetValueOk /\ last.arg[1] = id
            THEN Some(last.arg[2])
            ELSE PreValue(Input(id))

\* A set_value on one of two inputs gave it a value the other does not have.
C8_Witness ==
    /\ SetValueOk
    /\ inputs.index = 2
    /\ value(Input(last.arg[1])) = Some(last.arg[2])
    /\ \E other \in DOMAIN inputs.data :
          other # last.arg[1] /\ value(Input(other)) # Some(last.arg[2])

\* C9: a successful create_compute(deps, f) has stored a compute cell with
\* the dependencies deps, no callbacks and the cached value f(values of deps
\* in order); and in every state each compute cell's cached value is its
\* function of the current values of its dependencies.
C9_CreateComputeCoherent ==
    /\ Coherent
    /\ (last.op = "create_compute" /\ last.ret.ok) =>
          /\ last.ret.id \in DOMAIN computes.data
          /\ computes.data[last.ret.id].dependencies = last.arg[1]
          /\ computes.data[last.ret.id].callbacks = TableNew
          /\ value(Compute(last.ret.id)) =
                Some(Apply(last.arg[2], CurrentArgs(computes.data[last.ret.id])))

\* create_compute has created a cell over two dependencies whose values, in
\* the other order, give another result.
C9_Witness ==
    /\ last.op = "create_compute"
    /\ last.ret.ok
    /\ Len(last.arg[1]) = 2
    /\ LET a == CurrentArgs(computes.data[last.ret.id])
       IN  /\ Apply(last.arg[2], a) # Apply(last.arg[2], <<a[2], a[1]>>)
           /\ Apply(last.arg[2], a) # 0

\* C10: value returns the stored value of an existing input, the cached
\* value of an existing compute cell and nothing for an identifier unknown
\* to the store of its kind; it evaluates no compute function, invokes no
\* callback and leaves the reactor as it was.
C10_ValueIsPureRead ==
    last.op = "value" =>
        LET ref == last.arg[1]
        IN  /\ last.ret =
                  IF ref.kind = "Input"
                  THEN IF ref.id \in DOMAIN inputs.data
                       THEN Some(inputs.data[ref.id].value) ELSE None
                  ELSE IF ref.id \in DOMAIN computes.data
                       THEN Some(computes.data[ref.id].value) ELSE None
            /\ evals = <<>>
            /\ fired = <<>>
            /\ StoresUnchanged

\* value returned nothing for a compute identifier that is unknown although
\* an input cell with the same number exists.
C10_Witness ==
    /\ last.op = "value"
    /\ last.arg[1].kind = "Compute"
    /\ last.arg[1].id \in DOMAIN inputs.data
    /\ last.ret = None
    /\ computes.index > 0

\* The callback ids add_callback had returned for the compute cell c before
\* the last call: those registered when the call was made and those removed
\* (an id leaves a cell's table only by a remove_callback that returns Ok).
IssuedBefore(c) ==
    (IF c \in DOMAIN pre.computes.data
     THEN DOMAIN pre.computes.data[c].callbacks.data ELSE {})
        \cup {r.id : r \in {x \in removed : x.cell = c}}

\* C11: add_callback on a compute cell that does not exist returns nothing
\* and changes no state; on an existing cell it returns an identifier it had
\* not returned for that cell before, registers the callback under it on
\* that cell and changes nothing else, and invokes no callback.
C11_AddCallback ==
    last.op = "add_callback" =>
        LET c == last.arg[1]
        IN  IF c \notin DOMAIN pre.computes.data
            THEN last.ret = None /\ StoresUnchanged /\ fired = <<>>
            ELSE /\ IsSome(last.ret)
                 /\ Unwrap(last.ret) \notin IssuedBefore(c)
                 /\ Registered(c) =
                       DOMAIN pre.computes.data[c].callbacks.data \cup {Unwrap(last.ret)}
                 /\ \A k \in Registered(c) :
                       computes.data[c].callbacks.data[k] =
                           IF k = Unwrap(last.ret) THEN last.arg[2]
                           ELSE pre.computes.data[c].callbacks.data[k]
                 /\ computes.data[c].value = pre.computes.data[c].value
                 /\ computes.data[c].dependencies = pre.computes.data[c].dependencies
                 /\ computes.data[c].func = pre.computes.data[c].func
                 /\ DOMAIN computes.data = DOMAIN pre.computes.data
                 /\ \A d \in DOMAIN computes.data \ {c} :
                       computes.data[d] = pre.computes.data[d]
                 /\ inputs = pre.inputs
                 /\ fired = <<>>
                 /\ evals = <<>>

\* add_callback has registered a callback on a cell while another cell holds
\* a callback of its own.
C11_Witness ==
    /\ last.op = "add_callback"
    /\ IsSome(last.ret)
    /\ \E d \in DOMAIN computes.data :
          d # last.arg[1] /\ Registered(d) # {}

\* C12: identifiers of each kind are issued as 0, 1, 2, ... in this order:
\* create_input, a successful create_compute and a successful add_callback
\* return the number of identifiers issued before for the store (for
\* add_callback: for that cell), which is greater than all of them, also
\* when some of the callbacks they named have been removed.
C12_IdentifiersIncrease ==
    /\ DOMAIN inputs.data = 0 .. (inputs.index - 1)
    /\ DOMAIN computes.data = 0 .. (computes.index - 1)
    /\ last.op = "create_input" =>
          /\ last.ret = Cardinality(DOMAIN pre.inputs.data)
          /\ \A i \in DOMAIN pre.inputs.data : i < last.ret
          /\ DOMAIN inputs.data = DOMAIN pre.inputs.data \cup {last.ret}
    /\ (last.op = "create_compute" /\ last.ret.ok) =>
          /\ last.ret.id = Cardinality(DOMAIN pre.computes.data)
          /\ \A i \in DOMAIN pre.computes.data : i < last.ret.id
          /\ DOMAIN computes.data = DOMAIN pre.computes.data \cup {last.ret.id}
    /\ (last.op = "add_callback" /\ IsSome(last.ret)) =>
          /\ Unwrap(last.ret) = Cardinality(IssuedBefore(last.arg[1]))
          /\ \A k \in IssuedBefore(last.arg[1]) : k < Unwrap(last.ret)

\* add_callback returned 1 for a cell whose callback 0 had been removed.
C12_Witness ==
    /\ last.op = "add_callback"
    /\ last.ret = Some(1)
    /\ Registered(last.arg[1]) = {1}
    /\ \E r \in removed : r.cell = last.arg[1] /\ r.id = 0

\* C13 as stated: every dependency of every compute cell exists and has an
\* identifier strictly less than the compute cell's own identifier.
C13_AllDependencyIdsSmaller ==
    \A c \in DOMAIN computes.data :
        \A i \in DOMAIN computes.data[c].dependencies :
            /\ IsSome(value(computes.data[c].dependencies[i]))
            /\ computes.data[c].dependencies[i].id < c

\* C13, amended: every dependency of every compute cell exists, and every
\* dependency that is a compute cell has an identifier strictly less than
\* the cell's own, so no compute cell depends on itself and the order of
\* creation is a topological order of the dependency graph.  (Input and
\* compute identifiers are counted apart, so an input dependency's number
\* says nothing: the first compute cell, 0, may depend on input 0 or 1.)
C13_DependencyOrdering ==
    \A c \in DOMAIN computes.data :
        \A i \in DOMAIN computes.data[c].dependencies :
            /\ IsSome(value(computes.data[c].dependencies[i]))
            /\ computes.data[c].dependencies[i].kind = "Compute" =>
                  computes.data[c].dependencies[i].id < c

\* A compute cell depends on another compute cell and on an input.
C13_Witness ==
    \E c \in DOMAIN computes.data :
        /\ \E i \in DOMAIN computes.data[c].dependencies :
              computes.data[c].dependencies[i].kind = "Compute"
        /\ \E i \in DOMAIN computes.data[c].dependencies :
              computes.data[c].dependencies[i].kind = "Input"

\* The last call invoked the callback k of the compute cell c, the closure
\* registered under k.
Fired(c, k) ==
    \E i \in DOMAIN fired :
        /\ fired[i].cell = c
        /\ fired[i].id = k
        /\ fired[i].cb = computes.data[c].callbacks.data[k]

\* C14: when a propagation pass changes a compute cell, the callbacks
\* registered on it, and only they, are invoked, in ascending order of
\* their identifiers, which is the order of their registration, and each
\* is invoked with the new value when the cell already holds it.
C14_CallbackOrder ==
    /\ \A i, j \in DOMAIN fired :
          (i < j /\ fired[i].cell = fired[j].cell) =>
              /\ fired[i].id < fired[j].id
              /\ fired[i].cb < fired[j].cb
    /\ \A i \in DOMAIN fired :
          /\ fired[i].cached = fired[i].value
          /\ fired[i].id \in Registered(fired[i].cell)
          /\ \E j \in DOMAIN evals :
                /\ evals[j].cell = fired[i].cell
                /\ ChangedAt(j)
                /\ evals[j].result = fired[i].value
    /\ \A j \in DOMAIN evals :
          ChangedAt(j) => \A k \in Registered(evals[j].cell) : Fired(evals[j].cell, k)

\* Two callbacks of one cell were invoked in the same pass.
C14_Witness ==
    \E i, j \in DOMAIN fired :
        /\ i < j
        /\ fired[i].cell = fired[j].cell
        /\ fired[i].id = 0 /\ fired[j].id = 1

\* C15: a propagation pass visits the compute cells in ascending order of
\* their identifiers, and the value it reads for a dependency that is a
\* compute cell is the one an earlier step of the same pass computed.
C15_PassOrder ==
    last.op = "set_value" =>
        /\ \A j, k \in DOMAIN evals : j < k => evals[j].cell < evals[k].cell
        /\ \A k \in DOMAIN evals :
              LET deps == computes.data[evals[k].cell].dependencies
              IN  \A i \in DOMAIN deps :
                      deps[i].kind = "Compute" =>
                          \E j \in 1 .. (k - 1) :
                              /\ evals[j].cell = deps[i].id
                              /\ i \in DOMAIN evals[k].args
                              /\ evals[k].args[i] = evals[j].result

\* A pass recomputed a cell from the value it had given, a step earlier, to
\* a compute cell whose cached value before the pass was another.
C15_Witness ==
    /\ SetValueOk
    /\ \E j, k \in DOMAIN evals :
          /\ j < k
          /\ ChangedAt(j)
          /\ Compute(evals[j].cell) \in Range(computes.data[evals[k].cell].dependencies)

CreateComputeOk == last.op = "create_compute" /\ last.ret.ok

\* C16: a successful create_compute evaluates the new cell's function once
\* and no other; a successful set_value evaluates the function of every
\* compute cell exactly once; every other call, and a create_compute or
\* set_value that fails, evaluates none.
C16_EvaluatedOncePerPass ==
    /\ CreateComputeOk =>
          /\ Len(evals) = 1
          /\ evals[1].cell = last.ret.id
          /\ evals[1].old = None
          /\ last.ret.id \notin DOMAIN pre.computes.data
    /\ SetValueOk =>
          /\ \A c \in DOMAIN computes.data :
                Cardinality({j \in DOMAIN evals : evals[j].cell = c}) = 1
          /\ \A j \in DOMAIN evals :
                evals[j].cell \in DOMAIN computes.data /\ evals[j].old # None
    /\ ~(CreateComputeOk \/ SetValueOk) => evals = <<>>

\* A set_value has evaluated two compute cells, once each.
C16_Witness ==
    /\ SetValueOk
    /\ Len(evals) = 2
    /\ evals[1].cell # evals[2].cell

\* The borrows evs, made one after the other from the state in which
\* shared[c] guards of borrow() and the guards muts of borrow_mut() are
\* alive, never make a RefCell panic (no borrow() of a cell that is mutably
\* borrowed, no borrow_mut() of a cell that is borrowed in either way), never
\* hold two cells mutably borrowed, and leave no guard alive.
RECURSIVE BorrowsOk(_, _, _)
BorrowsOk(evs, shared, muts) ==
    IF evs = <<>> THEN muts = {} /\ \A c \in DOMAIN shared : shared[c] = 0
    ELSE LET e == Head(evs)
         IN  IF e.ev = "borrow"
             THEN /\ e.cell \notin muts
                  /\ BorrowsOk(Tail(evs), [shared EXCEPT ![e.cell] = @ + 1], muts)
             ELSE IF e.ev = "drop"
             THEN /\ shared[e.cell] > 0
                  /\ BorrowsOk(Tail(evs), [shared EXCEPT ![e.cell] = @ - 1], muts)
             ELSE IF e.ev = "borrow_mut"
             THEN /\ muts = {}
                  /\ shared[e.cell] = 0
                  /\ BorrowsOk(Tail(evs), shared, muts \cup {e.cell})
             ELSE /\ e.cell \in muts
                  /\ BorrowsOk(Tail(evs), shared, muts \ {e.cell})

\* C17: in every call, a compute cell is never borrowed while it is mutably
\* borrowed nor mutably borrowed while it is borrowed, at most one compute
\* cell is mutably borrowed at a time, and every guard is dropped before the
\* call returns: no borrow or borrow_mut of value, react, add_callback and
\* remove_callback panics.
C17_NoBorrowConflict ==
    BorrowsOk(borrows, [c \in 0 .. MaxComputes |-> 0], {})

\* A pass read the cached value of a cell it had mutably borrowed and
\* released a step earlier, while it held the borrow of the cell it was
\* about to update.
C17_Witness ==
    /\ SetValueOk
    /\ \E i, j \in DOMAIN borrows :
          /\ i + 1 < j
          /\ borrows[i].ev = "drop_mut"
          /\ borrows[j].ev = "borrow" /\ borrows[j].cell = borrows[i].cell
          /\ borrows[j - 1].ev = "borrow" /\ borrows[j - 1].cell # borrows[j].cell

\* C18: callback identifiers belong to their cell.  A remove_callback(A, k)
\* that returns Ok removes k from A's table and leaves every other cell as
\* it was, so that a callback k of another cell B stays registered, and is
\* invoked when B changes; and remove_callback(B, k) returns
\* NonexistentCallback when B has no callback k, whatever other cells have.
C18_CallbackIdsPerCell ==
    /\ last.op = "remove_callback" =>
          LET A == last.arg[1]
              k == last.arg[2]
          IN  /\ last.ret = "Ok" =>
                    /\ Registered(A) = DOMAIN pre.computes.data[A].callbacks.data \ {k}
                    /\ \A j \in Registered(A) :
                          computes.data[A].callbacks.data[j] =
                              pre.computes.data[A].callbacks.data[j]
                    /\ \A B \in DOMAIN computes.data \ {A} :
                          computes.data[B] = pre.computes.data[B]
              /\ (/\ A \in DOMAIN pre.computes.data
                  /\ k \notin DOMAIN pre.computes.data[A].callbacks.data)
                    => last.ret = "NonexistentCallback"
    /\ SetValueOk =>
          \A B \in DOMAIN computes.data :
              value(Compute(B)) # PreValue(Compute(B)) =>
                  \A k \in Registered(B) : Fired(B, k)

\* After remove_callback(A, k) returned Ok, a set_value has invoked the
\* callback k of another cell B.
C18_Witness ==
    /\ SetValueOk
    /\ \E r \in removed : \E i \in DOMAIN fired :
          fired[i].id = r.id /\ fired[i].cell # r.cell

\* C19: every dependency of every compute cell resolves, and each evaluation
\* of a compute function, at creation and in a propagation pass, is given
\* one value for each dependency of the cell, in the order of the
\* dependencies: nothing is dropped.
C19_NoDependencyDropped ==
    /\ \A c \in DOMAIN computes.data :
          \A i \in DOMAIN computes.data[c].dependencies :
              IsSome(value(computes.data[c].dependencies[i]))
    /\ \A j \in DOMAIN evals :
          /\ Len(evals[j].args) = Len(computes.data[evals[j].cell].dependencies)
          /\ evals[j].args = CurrentArgs(computes.data[evals[j].cell])

\* A pass evaluated a function of two arguments, the values of a compute
\* cell and of an input that differ.
C19_Witness ==
    /\ SetValueOk
    /\ \E j \in DOMAIN evals :
          LET deps == computes.data[evals[j].cell].dependencies
          IN  /\ Len(deps) = 2
              /\ deps[1].kind = "Compute" /\ deps[2].kind = "Input"
              /\ Len(evals[j].args) = 2
              /\ evals[j].args[1] # evals[j].args[2]

\* C20: a successful set_value(id, v) creates and removes no cell, leaves
\* the three kinds of identifier counter, the values of the other inputs
\* and the dependencies, function and callbacks of every compute cell as
\* they were: it changes the value of input id and cached values only.
C20_SetValueFrame ==
    SetValueOk =>
        /\ inputs.index = pre.inputs.index
        /\ DOMAIN inputs.data = DOMAIN pre.inputs.data
        /\ \A i \in DOMAIN inputs.data \ {last.arg[1]} :
              inputs.data[i] = pre.inputs.data[i]
        /\ computes.index = pre.computes.index
        /\ DOMAIN computes.data = DOMAIN pre.computes.data
        /\ \A c \in DOMAIN computes.data :
              /\ computes.data[c].dependencies = pre.computes.data[c].dependencies
              /\ computes.data[c].func = pre.computes.data[c].func
              /\ computes.data[c].callbacks = pre.computes.data[c].callbacks

\* A set_value on one of two inputs changed a compute cell and invoked its
\* callback.
C20_Witness ==
    /\ SetValueOk
    /\ inputs.index = 2
    /\ fired # <<>>

\* ------------------------------------------ parallel-letter-frequency

\* The characters of the lines: a lowercase and an uppercase ASCII letter,
\* a digit, and a letter outside ASCII.
Chars == {"a", "A", "1", "É"}

\* char::is_alphabetic
is_alphabetic(c) == c \in {"a", "A", "É"}

\* char::to_ascii_lowercase: ASCII uppercase letters to lowercase, every
\* other character as it is.
to_ascii_lowercase(c) == IF c = "A" THEN "a" ELSE c

\* *m.entry(k).or_insert(0) += v
AddEntry(m, k, v) ==
    [x \in DOMAIN m \cup {k} |-> IF x = k
                                 THEN (IF k \in DOMAIN m THEN m[k] ELSE 0) + v
                                 ELSE m[x]]

\* for c in str.chars().filter(|c| c.is_alphabetic())
\*     { *cc.entry(c.to_ascii_lowercase()).or_insert(0) += 1; }
RECURSIVE CountChars(_, _)
CountChars(line, cc) ==
    IF line = <<>> THEN cc
    ELSE CountChars(Tail(line),
            IF is_alphabetic(Head(line))
            THEN AddEntry(cc, to_ascii_lowercase(Head(line)), 1)
            ELSE cc)

\* for (k, v) in received { *result.entry(k).or_insert(0) += v; }
\* (the entries of received are added one by one, in any order)
RECURSIVE Merge(_, _)
Merge(m, received) ==
    IF DOMAIN received = {} THEN m
    ELSE LET k == CHOOSE x \in DOMAIN received : TRUE
         IN  Merge(AddEntry(m, k, received[k]),
                   [x \in DOMAIN received \ {k} |-> received[x]])

LinesUpTo(n) == UNION {[1 .. k -> Chars] : k \in 0 .. n}

Inputs == UNION {[1 .. k -> LinesUpTo(MaxLineLen)] : k \in 0 .. MaxLines}

Workers == 1 .. worker_count

\* frequency(input, worker_count) is called.
FreqInit ==
    /\ ReactorNew
    /\ NoBuffer
    /\ input \in Inputs
    /\ worker_count \in 0 .. MaxWorkers
    /\ pool = <<>>
    /\ pool_tx = FALSE
    /\ res = <<>>
    /\ res_tx = 0
    /\ res_rx = FALSE
    /\ lock = 0
    /\ main = "start"
    /\ spawned = 0
    /\ sent = 0
    /\ result = EmptyMap
    /\ worker = [w \in Workers |-> "unspawned"]
    /\ str = [w \in Workers |-> <<>>]
    /\ counted = <<>>

\* assert!(worker_count > 0); the new HashMap; the return of it when input
\* is empty; the two channels.
main_start ==
    /\ main = "start"
    /\ IF worker_count = 0
       THEN /\ main' = "panicked"
            /\ UNCHANGED <<pool_tx, res_tx, res_rx>>
       ELSE IF input = <<>>
       THEN /\ main' = "returned"
            /\ UNCHANGED <<pool_tx, res_tx, res_rx>>
       ELSE /\ main' = "spawn"
            /\ pool_tx' = TRUE
            /\ res_tx' = 1
            /\ res_rx' = TRUE
    /\ UNCHANGED <<react_vars, buf_vars>>
    /\ UNCHANGED <<input, worker_count, pool, res, lock, spawned, sent, result,
                   worker, str, counted>>

\* for _ in 1..=worker_count: one turn, which clones res_tx and spawns a
\* thread, or the end of the loop.
main_spawn ==
    /\ main = "spawn"
    /\ IF spawned < worker_count
       THEN /\ spawned' = spawned + 1
            /\ res_tx' = res_tx + 1
            /\ worker' = [worker EXCEPT ![spawned + 1] = "lock"]
            /\ main' = main
       ELSE /\ main' = "send"
            /\ UNCHANGED <<spawned, res_tx, worker>>
    /\ UNCHANGED <<react_vars, buf_vars>>
    /\ UNCHANGED <<input, worker_count, pool, pool_tx, res, res_rx, lock, sent,
                   result, str, counted>>

\* for line in input: one pool_tx.send, which does not block, or the end of
\* the loop.
main_send ==
    /\ main = "send"
    /\ IF sent < Len(input)
       THEN /\ sent' = sent + 1
            /\ pool' = Append(pool, [idx |-> sent + 1, line |-> input[sent + 1]])
            /\ main' = main
       ELSE /\ main' = "drop_pool_tx"
            /\ UNCHANGED <<sent, pool>>
    /\ UNCHANGED <<react_vars, buf_vars>>
    /\ UNCHANGED <<input, worker_count, pool_tx, res, res_tx, res_rx, lock, spawned,
                   result, worker, str, counted>>

\* drop(pool_tx)
main_drop_pool_tx ==
    /\ main = "drop_pool_tx"
    /\ pool_tx' = FALSE
    /\ main' = "drop_res_tx"
    /\ UNCHANGED <<react_vars, buf_vars>>
    /\ UNCHANGED <<input, worker_count, pool, res, res_tx, res_rx, lock, spawned,
                   sent, result, worker, str, counted>>

\* A calling thread that keeps its Sender of the result channel.
main_keeps_res_tx ==
    /\ main = "drop_res_tx"
    /\ main' = "collect"
    /\ UNCHANGED <<react_vars, buf_vars>>
    /\ UNCHANGED <<input, worker_count, pool, pool_tx, res, res_tx, res_rx, lock,
                   spawned, sent, result, worker, str, counted>>

\* drop(res_tx)
main_drop_res_tx ==
    /\ main = "drop_res_tx"
    /\ res_tx' = res_tx - 1
    /\ main' = "collect"
    /\ UNCHANGED <<react_vars, buf_vars>>
    /\ UNCHANGED <<input, worker_count, pool, pool_tx, res, res_rx, lock, spawned,
                   sent, result, worker, str, counted>>

\* for received in res_rx: one turn with the message received, or the end
\* of the loop, and the return, when the channel is empty and has no
\* Sender; the thread is blocked when it is empty and has one.
main_collect ==
    /\ main = "collect"
    /\ IF res # <<>>
       THEN /\ result' = Merge(result, Head(res))
            /\ res' = Tail(res)
            /\ main' = main
            /\ UNCHANGED res_rx
       ELSE /\ res_tx = 0
            /\ main' = "returned"
            /\ res_rx' = FALSE
            /\ UNCHANGED <<result, res>>
    /\ UNCHANGED <<react_vars, buf_vars>>
    /\ UNCHANGED <<input, worker_count, pool, pool_tx, res_tx, lock, spawned, sent,
                   worker, str, counted>>

\* pool_rx.lock().unwrap(): the thread is blocked while another holds the
\* guard.
worker_lock(w) ==
    /\ worker[w] = "lock"
    /\ lock = 0
    /\ lock' = w
    /\ worker' = [worker EXCEPT ![w] = "recv"]
    /\ UNCHANGED <<react_vars, buf_vars>>
    /\ UNCHANGED <<input, worker_count, pool, pool_tx, res, res_tx, res_rx, main,
                   spawned, sent, result, str, counted>>

\* .recv(), made holding the guard, which is dropped at the end of the
\* let: Ok(v) with the oldest message; Err, the break and the end of the
\* thread, which drops its res_tx, when the channel is empty and pool_tx was
\* dropped; the thread is blocked when it is empty and pool_tx is alive.
worker_recv(w) ==
    /\ worker[w] = "recv"
    /\ IF pool # <<>>
       THEN /\ str' = [str EXCEPT ![w] = Head(pool)]
            /\ pool' = Tail(pool)
            /\ worker' = [worker EXCEPT ![w] = "count"]
            /\ UNCHANGED res_tx
       ELSE /\ ~pool_tx
            /\ worker' = [worker EXCEPT ![w] = "exited"]
            /\ res_tx' = res_tx - 1
            /\ UNCHANGED <<str, pool>>
    /\ lock' = 0
    /\ UNCHANGED <<react_vars, buf_vars>>
    /\ UNCHANGED <<input, worker_count, pool_tx, res, res_rx, main, spawned, sent,
                   result, counted>>

\* The counting of the letters of str and res_tx.send(cc).unwrap(), which
\* panics when res_rx was dropped.
worker_count_send(w) ==
    /\ worker[w] = "count"
    /\ counted' = Append(counted, [worker |-> w, idx |-> str[w].idx])
    /\ IF res_rx
       THEN /\ res' = Append(res, CountChars(str[w].line, EmptyMap))
            /\ worker' = [worker EXCEPT ![w] = "lock"]
            /\ UNCHANGED res_tx
       ELSE /\ worker' = [worker EXCEPT ![w] = "panicked"]
            /\ res_tx' = res_tx - 1
            /\ UNCHANGED res
    /\ UNCHANGED <<react_vars, buf_vars>>
    /\ UNCHANGED <<input, worker_count, pool, pool_tx, res_rx, lock, main, spawned,
                   sent, result, str>>

\* The thread that called frequency.
MainThread ==
    \/ main_start
    \/ main_spawn
    \/ main_send
    \/ main_drop_pool_tx
    \/ main_drop_res_tx
    \/ main_collect

\* The thread of the w-th thread::spawn.
WorkerThread(w) ==
    \/ worker_lock(w)
    \/ worker_recv(w)
    \/ worker_count_send(w)

WorkerLock == \E w \in Workers : worker_lock(w)

WorkerRecv == \E w \in Workers : worker_recv(w)

WorkerCountSend == \E w \in Workers : worker_count_send(w)

\* A step of one of the threads.
FreqNext ==
    \/ MainThread
    \/ WorkerLock
    \/ WorkerRecv
    \/ WorkerCountSend

\* Every thread that can take a step eventually takes one: the scheduler
\* of the operating system starves no runnable thread.
FreqFairness ==
    /\ WF_vars(MainThread)
    /\ \A w \in 1 .. MaxWorkers : WF_vars(w \in Workers /\ WorkerThread(w))

FreqSpec == FreqInit /\ [][FreqNext]_vars /\ FreqFairness

\* What one thread counts, line after line: the counts of the letters of
\* the lines from the i-th on, added to m.
RECURSIVE CountFrom(_, _)
CountFrom(i, m) ==
    IF i > Len(input) THEN m
    ELSE CountFrom(i + 1, Merge(m, CountChars(input[i], EmptyMap)))

\* The workers that have counted the i-th line.
CountedBy(i) == {j \in DOMAIN counted : counted[j].idx = i}

\* frequency has returned: its workers have exited, the two channels are
\* closed and empty, the mutex is free, each line was counted by one worker
\* and the counts are those of the lines, whatever the workers and the
\* order of their steps.
Returned ==
    /\ main = "returned"
    /\ \A w \in Workers : worker[w] \in {"unspawned", "exited"}
    /\ input # <<>> => \A w \in Workers : worker[w] = "exited"
    /\ pool = <<>> /\ ~pool_tx
    /\ res = <<>> /\ res_tx = 0
    /\ lock = 0
    /\ \A i \in 1 .. Len(input) : Cardinality(CountedBy(i)) = 1
    /\ result = CountFrom(1, EmptyMap)

\* C21: frequency(input, worker_count) with worker_count >= 1 returns,
\* under every interleaving of its threads; no line is ever counted twice
\* and no thread panics; and when it returns every worker has exited, the
\* channels are closed, every line was counted by exactly one worker and
\* the counts are those of the lines, a function of input alone.
C21_FrequencyReturns ==
    /\ [](\A i \in 1 .. Len(input) : Cardinality(CountedBy(i)) <= 1)
    /\ [](\A w \in Workers : worker[w] # "panicked")
    /\ [](main = "returned" => Returned)
    /\ (worker_count >= 1) ~> Returned

\* Two workers have each counted a line with the letter a in it, and
\* frequency has returned the sum.
C21_Witness ==
    /\ main = "returned"
    /\ worker_count = 2
    /\ Len(counted) = 2
    /\ counted[1].worker # counted[2].worker
    /\ "a" \in DOMAIN result
    /\ result["a"] >= 2
    /\ \E i \in 1 .. 2 : "A" \in {input[i][j] : j \in DOMAIN input[i]}

\* ----------------------------------------------------- circular-buffer

Elements == 0 .. (NumElems - 1)

\* Result<T, Error> and Result<(), Error>
Ok(v) == [ok |-> TRUE, value |-> v]
Err(e) == [ok |-> FALSE, error |-> e]

\* CircularBuffer::new(capacity)
BufInit ==
    /\ ReactorNew
    /\ NoFrequency
    /\ capacity \in 0 .. MaxCapacity
    /\ data = <<>>
    /\ called = [op |-> "new", arg |-> <<capacity>>, ret |-> <<>>, data |-> <<>>]

\* VecDeque::pop_front, the deque it leaves: the empty one stays empty.
pop_front(d) == IF d = <<>> THEN <<>> ELSE Tail(d)

\* CircularBuffer::write(element)
write(element) ==
    /\ IF Len(data) = capacity
       THEN /\ called' = [op |-> "write", arg |-> <<element>>,
                          ret |-> Err("FullBuffer"), data |-> data]
            /\ UNCHANGED data
       ELSE /\ Len(data) < MaxStored
            /\ data' = Append(data, element)
            /\ called' = [op |-> "write", arg |-> <<element>>,
                          ret |-> Ok(<<>>), data |-> data]
    /\ UNCHANGED capacity
    /\ UNCHANGED <<react_vars, freq_vars>>

\* CircularBuffer::read()
read ==
    /\ IF data # <<>>
       THEN /\ data' = Tail(data)
            /\ called' = [op |-> "read", arg |-> <<>>,
                          ret |-> Ok(Head(data)), data |-> data]
       ELSE /\ called' = [op |-> "read", arg |-> <<>>,
                          ret |-> Err("EmptyBuffer"), data |-> data]
            /\ UNCHANGED data
    /\ UNCHANGED capacity
    /\ UNCHANGED <<react_vars, freq_vars>>

\* CircularBuffer::clear()
clear ==
    /\ data' = IF Len(data) # 0 THEN <<>> ELSE data
    /\ called' = [op |-> "clear", arg |-> <<>>, ret |-> <<>>, data |-> data]
    /\ UNCHANGED capacity
    /\ UNCHANGED <<react_vars, freq_vars>>

\* CircularBuffer::overwrite(element)
overwrite(element) ==
    LET kept == IF Len(data) = capacity THEN pop_front(data) ELSE data
    IN  /\ Len(kept) < MaxStored
        /\ data' = Append(kept, element)
        /\ called' = [op |-> "overwrite", arg |-> <<element>>, ret |-> <<>>,
                      data |-> data]
        /\ UNCHANGED capacity
        /\ UNCHANGED <<react_vars, freq_vars>>

Write == \E element \in Elements : write(element)

Overwrite == \E element \in Elements : overwrite(element)

\* A call of one of the four methods.
BufNext ==
    \/ Write
    \/ read
    \/ clear
    \/ Overwrite

BufSpec == BufInit /\ [][BufNext]_vars

\* The buffer never holds more elements than its capacity.
WithinCapacity == Len(data) <= capacity

\* A write that found the buffer full returned FullBuffer and left the
\* elements as they were.
WriteOnFull ==
    (called.op = "write" /\ Len(called.data) >= capacity) =>
        called.ret = Err("FullBuffer") /\ data = called.data

\* A read that found the buffer empty returned EmptyBuffer.
ReadOnEmpty ==
    (called.op = "read" /\ called.data = <<>>) => called.ret = Err("EmptyBuffer")

\* Elements are read oldest first: they are stored at the back, by write
\* and by overwrite, which drops the oldest one of a full buffer, and are
\* read at the front.
OldestFirst ==
    /\ (called.op = "write" /\ called.ret = Ok(<<>>)) =>
            data = Append(called.data, called.arg[1])
    /\ called.op = "overwrite" =>
            data = Append(IF Len(called.data) >= capacity /\ called.data # <<>>
                          THEN Tail(called.data) ELSE called.data,
                          called.arg[1])
    /\ (called.op = "read" /\ called.data # <<>>) =>
            called.ret = Ok(Head(called.data)) /\ data = Tail(called.data)

\* C22: a CircularBuffer of any capacity, 0 included, never holds more
\* elements than its capacity, whatever write, read, clear and overwrite
\* calls are made; a write on a full buffer returns FullBuffer and changes
\* nothing, a read on an empty one returns EmptyBuffer, and elements are
\* read oldest first.
C22_CircularBuffer ==
    /\ WithinCapacity
    /\ WriteOnFull
    /\ ReadOnEmpty
    /\ OldestFirst

\* The same of the buffers with a capacity of 1 or more.
PositiveCapacity == capacity >= 1 => C22_CircularBuffer

====
